---- MODULE Spec2Model ----
(***************************************************************************)
(* OBSGradePuller: the login flow of src/main.py (main, captcha_handler,   *)
(* the __main__ guard), the segmenter find_character_regions and the batch *)
(* collector of src/services/captcha_solver/auto_collect_digits.py.        *)
(*                                                                         *)
(* Three specifications share the module:                                  *)
(*   Spec       main() of src/main.py, one step per statement group        *)
(*   SpecSeg    find_character_regions, one step per contour of the loop   *)
(*   SpecBatch  main() of auto_collect_digits.py, the collection loop      *)
(***************************************************************************)
EXTENDS Integers, Sequences, FiniteSets, TLC

VARIABLES
    \* ---- src/main.py ----
    pc,               \* position of main()
    inv,              \* number of the running invocation of main() (recursion depth)
    registered_users, \* what auth.get_registered_users() holds (the keyring)
    current_user,     \* main.py:28, None until chosen or typed
    save_credentials, \* main.py:62
    status,           \* the rich Status of main.py:73: "idle" (not created), "running", "stopped"
    exc,              \* the exception in flight, by origin; "none" when there is none
    ai_result,        \* main.py:77
    code,             \* main.py:108, what the operator typed
    ret,              \* what captcha_handler returned to client.login
    handler,          \* how captcha_handler was left: "none", "active", "returned", "raised"
    login_success,    \* main.py:70
    loginCalls,       \* calls of client.login in this invocation
    events,           \* what this invocation has done that the user or the keyring can see
    hist,             \* ghost: facts about the path taken through captcha_handler
    \* ---- find_character_regions ----
    segpc, boxes, regions, lastCnt, nAdded, nCnt,
    \* ---- batch collector ----
    bpc, i, success_count, model, fileExists, bboxes, parsed_digits,
    dataset, saved, iterExit,
    labels,           \* ghost: what predict_digit did for each region of the running pass
    counted,          \* ghost: the running pass has been added to success_count
    \* ---- predict_digit ----
    ppc, self_model, roi, padded, resized, digit

mainVars == <<pc, inv, registered_users, current_user, save_credentials, status,
              exc, ai_result, code, ret, handler, login_success, loginCalls,
              events, hist>>
segVars == <<segpc, boxes, regions, lastCnt, nAdded, nCnt>>
batchVars == <<bpc, i, success_count, model, fileExists, bboxes, parsed_digits,
               dataset, saved, iterExit, labels, counted>>
predVars == <<ppc, self_model, roi, padded, resized, digit>>
vars == <<mainVars, segVars, batchVars, predVars>>

----------------------------------------------------------------------------
(* Bounds and input domains *)

\* main() calls itself (main.py:51, main.py:167); the model follows this many invocations.
MaxInvocations == 2
\* The student numbers a user can pick or type.
Users == {"u1", "u2"}
\* The digit strings a solver can return or an operator can type.
Codes == {"12", "739"}
\* Python's None, a value distinct from every string the program handles.
None == "None"
\* find_character_regions: the width of the image, the contours one image has at
\* most, and the bounding boxes cv2.boundingRect can give them (inside the image,
\* from 1 pixel up, on both sides of every threshold of the filters and of the
\* split).
ImgW == 120
MaxContours == 3
ContourXs == {10, 50}
ContourYs == {4}
ContourWs == {1, 15, 28, 30, 46, 47}
ContourHs == {1, 17, 20, 30}
\* The batch collector: the height of the image, the labels the classifier's
\* argmax is followed over, and the contour lists of the images the portal serves
\* (no contour, one too low, one digit, a wide blob and a digit).
ImgH == 40
Labels == {"3", "7"}
BatchImages == {<<>>,
                <<[x |-> 10, y |-> 4, w |-> 15, h |-> 17]>>,
                <<[x |-> 10, y |-> 4, w |-> 15, h |-> 20]>>,
                <<[x |-> 50, y |-> 4, w |-> 30, h |-> 30],
                  [x |-> 10, y |-> 4, w |-> 28, h |-> 20]>>}
\* predict_digit: the region images it is followed over have up to MaxRoi rows
\* and columns, the empty ones included.
MaxRoi == 6
Contours == {c \in [x : ContourXs, y : ContourYs, w : ContourWs, h : ContourHs] :
               c.x + c.w <= ImgW}

----------------------------------------------------------------------------
(* src/main.py *)

\* The test `if ai_result is not None:`, which lets the empty string through.
TruthyNotNone(v) == v # None

\* Python truth of a str-or-None value (main.py:86 `if ai_result:`).
Truthy(v) == v # None /\ v # ""

\* What CaptchaSolver().solve(path) can do (main.py:79-80): return None, "" or a
\* code, or raise an Exception.
SolverOutcomes == {None, "", "raise"} \cup Codes

\* What ui.ask_input can hand back (main.py:108): any line, the empty one included.
TypedCodes == Codes \cup {""}

\* The positions of captcha_handler (main.py:75-114), of the try statement
\* (main.py:74-116), of the whole `with ui.console.status(...)` block
\* (main.py:73-123), and of main() before and after it.
HandlerPcs == {"h_solve", "h_check", "h_viewer", "h_stop", "h_prompt", "h_start"}
TryPcs == {"login_call", "login_fetch", "login_submit"} \cup HandlerPcs
LoginPcs == TryPcs \cup {"except_msg", "with_exit"}
PrePcs == {"start", "ask_creds", "with_enter"}
PostPcs == {"check_login", "save_q", "fetch", "final_q"}

Phase(p) == IF p \in LoginPcs THEN "login" ELSE IF p \in PrePcs THEN "pre" ELSE "post"

\* A bare `except:`, which matches a KeyboardInterrupt too.
IsAnything(e) == e # "none"

\* An except clause for the transport errors of client.login only.
IsTransportError(e) == e = "transport"

\* The origins of an exception of class Exception; a KeyboardInterrupt ("interrupt")
\* is a BaseException and no `except Exception` matches it.
IsException(e) == e \in {"solver", "viewer", "prompt", "transport"}

NoHist == [solverRaised |-> FALSE, stopped |-> FALSE, restarted |-> FALSE,
           source |-> "none", caught |-> "none", intPhase |-> "none",
           intInPrompt |-> FALSE]

\* The locals of a fresh invocation of main() (main.py:28-29, 62, 70).
FreshLocals ==
    /\ current_user' = None
    /\ save_credentials' = FALSE
    /\ status' = "idle"
    /\ exc' = "none"
    /\ ai_result' = None
    /\ code' = None
    /\ ret' = None
    /\ handler' = "none"
    /\ login_success' = FALSE
    /\ loginCalls' = 0
    /\ events' = {}
    /\ hist' = NoHist

MainInit ==
    /\ pc = "start"
    /\ inv = 1
    /\ registered_users \in SUBSET Users
    /\ current_user = None
    /\ save_credentials = FALSE
    /\ status = "idle"
    /\ exc = "none"
    /\ ai_result = None
    /\ code = None
    /\ ret = None
    /\ handler = "none"
    /\ login_success = FALSE
    /\ loginCalls = 0
    /\ events = {}
    /\ hist = NoHist

\* main.py:34-40: the menu, "Cikis" chosen: sys.exit(0).
ChooseExit ==
    /\ pc = "start" /\ registered_users # {}
    /\ pc' = "exited"
    /\ events' = events \cup {"msg_bye"}
    /\ UNCHANGED <<inv, registered_users, current_user, save_credentials, status, exc,
                   ai_result, code, ret, handler, login_success, loginCalls, hist>>
    /\ UNCHANGED <<segVars, batchVars, predVars>>

\* main.py:31-44, 62-63: no registered user, or "Yeni Giris Yap" chosen.
ChooseNew ==
    /\ pc = "start"
    /\ pc' = "ask_creds"
    /\ UNCHANGED <<inv, registered_users, current_user, save_credentials, status, exc,
                   ai_result, code, ret, handler, login_success, loginCalls, events, hist>>
    /\ UNCHANGED <<segVars, batchVars, predVars>>

\* main.py:46-51: "Kullanici Sil", then `return main()`.
ChooseDelete ==
    /\ pc = "start" /\ registered_users # {} /\ inv < MaxInvocations
    /\ \E u \in registered_users : registered_users' = registered_users \ {u}
    /\ pc' = "start"
    /\ inv' = inv + 1
    /\ FreshLocals
    /\ UNCHANGED <<segVars, batchVars, predVars>>

\* main.py:53-63: a registered user chosen; auth.get_password may come back empty.
ChooseUser ==
    /\ pc = "start"
    /\ \E u \in registered_users, pwOK \in BOOLEAN :
          IF pwOK
          THEN /\ current_user' = u
               /\ pc' = "with_enter"
               /\ events' = events
          ELSE /\ current_user' = None
               /\ pc' = "ask_creds"
               /\ events' = events \cup {"msg_no_password"}
    /\ UNCHANGED <<inv, registered_users, save_credentials, status, exc,
                   ai_result, code, ret, handler, login_success, loginCalls, hist>>
    /\ UNCHANGED <<segVars, batchVars, predVars>>

\* main.py:63-67: the credentials are typed in.
AskCredentials ==
    /\ pc = "ask_creds"
    /\ \E u \in Users : current_user' = u
    /\ save_credentials' = TRUE
    /\ events' = events \cup {"typed_credentials"}
    /\ pc' = "with_enter"
    /\ UNCHANGED <<inv, registered_users, status, exc, ai_result, code, ret, handler,
                   login_success, loginCalls, hist>>
    /\ UNCHANGED <<segVars, batchVars, predVars>>

\* main.py:73: Status.__enter__ starts the indicator.
EnterStatus ==
    /\ pc = "with_enter"
    /\ status' = "running"
    /\ pc' = "login_call"
    /\ UNCHANGED <<inv, registered_users, current_user, save_credentials, exc,
                   ai_result, code, ret, handler, login_success, loginCalls, events, hist>>
    /\ UNCHANGED <<segVars, batchVars, predVars>>

\* main.py:116: client.login(current_user, current_pass, captcha_handler) is called.
CallLogin ==
    /\ pc = "login_call"
    /\ loginCalls' = loginCalls + 1
    /\ pc' = "login_fetch"
    /\ UNCHANGED <<inv, registered_users, current_user, save_credentials, status, exc,
                   ai_result, code, ret, handler, login_success, events, hist>>
    /\ UNCHANGED <<segVars, batchVars, predVars>>

\* OBSClient.login, first half: fetch the login page and the challenge image, then
\* call the handler; a network failure raises.
LoginFetch ==
    /\ pc = "login_fetch"
    /\ \/ /\ exc' = "transport"
          /\ pc' = "try_raised"
          /\ handler' = handler
       \/ /\ exc' = exc
          /\ pc' = "h_solve"
          /\ handler' = "active"
    /\ UNCHANGED <<inv, registered_users, current_user, save_credentials, status,
                   ai_result, code, ret, login_success, loginCalls, events, hist>>
    /\ UNCHANGED <<segVars, batchVars, predVars>>

\* captcha_handler without the try/except of main.py:78-83: an Exception of the
\* solver leaves the handler.
HandlerSolveUncaught ==
    /\ pc = "h_solve"
    /\ \E o \in SolverOutcomes :
          IF o = "raise"
          THEN /\ exc' = "solver"
               /\ handler' = "raised"
               /\ hist' = [hist EXCEPT !.solverRaised = TRUE]
               /\ pc' = "try_raised"
               /\ UNCHANGED ai_result
          ELSE /\ ai_result' = o
               /\ pc' = "h_check"
               /\ UNCHANGED <<exc, handler, hist>>
    /\ UNCHANGED <<inv, registered_users, current_user, save_credentials, status,
                   code, ret, login_success, loginCalls, events>>
    /\ UNCHANGED <<segVars, batchVars, predVars>>

\* main.py:77-83: the automatic attempt; `except Exception: pass` absorbs an
\* Exception of CaptchaSolver() or solver.solve and leaves ai_result None.
HandlerSolve ==
    /\ pc = "h_solve"
    /\ \E o \in SolverOutcomes :
          IF o = "raise"
          THEN /\ ai_result' = None
               /\ hist' = [hist EXCEPT !.solverRaised = TRUE]
          ELSE /\ ai_result' = o
               /\ hist' = hist
    /\ pc' = "h_check"
    /\ UNCHANGED <<inv, registered_users, current_user, save_credentials, status, exc,
                   code, ret, handler, login_success, loginCalls, events>>
    /\ UNCHANGED <<segVars, batchVars, predVars>>

\* main.py:86-94: return the automatic code, or announce the manual entry.
HandlerCheck ==
    /\ pc = "h_check"
    /\ IF Truthy(ai_result)
       THEN /\ ret' = ai_result
            /\ handler' = "returned"
            /\ hist' = [hist EXCEPT !.source = "automatic"]
            /\ events' = events \cup {"msg_ai_solved"}
            /\ pc' = "login_submit"
       ELSE /\ events' = events \cup {"msg_ai_failed"}
            /\ pc' = "h_viewer"
            /\ UNCHANGED <<ret, handler, hist>>
    /\ UNCHANGED <<inv, registered_users, current_user, save_credentials, status, exc,
                   ai_result, code, login_success, loginCalls>>
    /\ UNCHANGED <<segVars, batchVars, predVars>>

\* main.py:97-102: the image is opened with the host's viewer; starting the viewer
\* can raise (OSError of os.startfile or subprocess.call).
HandlerViewer ==
    /\ pc = "h_viewer"
    /\ events' = events \cup {"viewer"}
    /\ \/ /\ pc' = "h_stop"
          /\ UNCHANGED <<exc, handler>>
       \/ /\ exc' = "viewer"
          /\ handler' = "raised"
          /\ pc' = "try_raised"
    /\ UNCHANGED <<inv, registered_users, current_user, save_credentials, status,
                   ai_result, code, ret, login_success, loginCalls, hist>>
    /\ UNCHANGED <<segVars, batchVars, predVars>>

\* captcha_handler with the status.stop() of main.py:105 left out.
HandlerStopMissing ==
    /\ pc = "h_stop"
    /\ pc' = "h_prompt"
    /\ UNCHANGED <<inv, registered_users, current_user, save_credentials, status, exc,
                   ai_result, code, ret, handler, login_success, loginCalls, events,
                   hist>>
    /\ UNCHANGED <<segVars, batchVars, predVars>>

\* main.py:105: status.stop().
HandlerStop ==
    /\ pc = "h_stop"
    /\ status' = "stopped"
    /\ hist' = [hist EXCEPT !.stopped = TRUE]
    /\ pc' = "h_prompt"
    /\ UNCHANGED <<inv, registered_users, current_user, save_credentials, exc,
                   ai_result, code, ret, handler, login_success, loginCalls, events>>
    /\ UNCHANGED <<segVars, batchVars, predVars>>

\* main.py:107-108: ui.ask_input returns the typed line, or raises (EOFError on a
\* closed stdin).
HandlerPrompt ==
    /\ pc = "h_prompt"
    /\ events' = events \cup {"prompt"}
    /\ \/ /\ \E c \in TypedCodes : code' = c
          /\ pc' = "h_start"
          /\ UNCHANGED <<exc, handler>>
       \/ /\ exc' = "prompt"
          /\ handler' = "raised"
          /\ pc' = "try_raised"
          /\ code' = code
    /\ UNCHANGED <<inv, registered_users, current_user, save_credentials, status,
                   ai_result, ret, login_success, loginCalls, hist>>
    /\ UNCHANGED <<segVars, batchVars, predVars>>

\* main.py:111-114: status.start(); return code.
HandlerRestart ==
    /\ pc = "h_start"
    /\ status' = "running"
    /\ ret' = code
    /\ handler' = "returned"
    /\ hist' = [hist EXCEPT !.restarted = TRUE, !.source = "human"]
    /\ pc' = "login_submit"
    /\ UNCHANGED <<inv, registered_users, current_user, save_credentials, exc,
                   ai_result, code, login_success, loginCalls, events>>
    /\ UNCHANGED <<segVars, batchVars, predVars>>

\* OBSClient.login, second half: submit the credentials with the code; the portal
\* accepts or rejects, or the network fails. main.py:116 assigns the result.
LoginSubmit ==
    /\ pc = "login_submit"
    /\ \/ /\ \E ok \in BOOLEAN : login_success' = ok
          /\ pc' = "with_exit"
          /\ exc' = exc
       \/ /\ exc' = "transport"
          /\ pc' = "try_raised"
          /\ login_success' = login_success
    /\ UNCHANGED <<inv, registered_users, current_user, save_credentials, status,
                   ai_result, code, ret, handler, loginCalls, events, hist>>
    /\ UNCHANGED <<segVars, batchVars, predVars>>

\* main.py:118-121: `except Exception as e` matches; status.stop().
ExceptStop ==
    /\ pc = "try_raised" /\ IsException(exc)
    /\ status' = "stopped"
    /\ pc' = "except_msg"
    /\ hist' = [hist EXCEPT !.caught = exc]
    /\ UNCHANGED <<inv, registered_users, current_user, save_credentials, exc,
                   ai_result, code, ret, handler, login_success, loginCalls, events>>
    /\ UNCHANGED <<segVars, batchVars, predVars>>

\* main.py:122-123: the error message, then `return`; Status.__exit__ runs on
\* the way out and stops the indicator once more.
ExceptMessage ==
    /\ pc = "except_msg"
    /\ events' = events \cup {"msg_conn_error"}
    /\ exc' = "none"
    /\ status' = "stopped"
    /\ pc' = "returned"
    /\ UNCHANGED <<inv, registered_users, current_user, save_credentials,
                   ai_result, code, ret, handler, login_success, loginCalls, hist>>
    /\ UNCHANGED <<segVars, batchVars, predVars>>

\* main.py:118: the except clause does not match; the exception leaves the try.
Uncaught ==
    /\ pc = "try_raised" /\ ~IsException(exc)
    /\ pc' = "with_raise"
    /\ UNCHANGED <<inv, registered_users, current_user, save_credentials, status, exc,
                   ai_result, code, ret, handler, login_success, loginCalls, events, hist>>
    /\ UNCHANGED <<segVars, batchVars, predVars>>

\* main.py:73: Status.__exit__ with an exception in flight: the indicator is
\* stopped and the exception leaves main().
WithExitRaise ==
    /\ pc = "with_raise"
    /\ status' = "stopped"
    /\ pc' = "main_raised"
    /\ UNCHANGED <<inv, registered_users, current_user, save_credentials, exc,
                   ai_result, code, ret, handler, login_success, loginCalls, events, hist>>
    /\ UNCHANGED <<segVars, batchVars, predVars>>

\* main.py:171-175: the __main__ guard catches KeyboardInterrupt and prints the
\* cancellation; anything else ends the process with a traceback.
MainGuard ==
    /\ pc = "main_raised"
    /\ IF exc = "interrupt"
       THEN /\ events' = events \cup {"cancelled"}
            /\ pc' = "terminated"
       ELSE /\ events' = events
            /\ pc' = "crashed"
    /\ UNCHANGED <<inv, registered_users, current_user, save_credentials, status, exc,
                   ai_result, code, ret, handler, login_success, loginCalls, hist>>
    /\ UNCHANGED <<segVars, batchVars, predVars>>

\* main.py:73: Status.__exit__ on the normal way out of the with block.
WithExit ==
    /\ pc = "with_exit"
    /\ status' = "stopped"
    /\ pc' = "check_login"
    /\ UNCHANGED <<inv, registered_users, current_user, save_credentials, exc,
                   ai_result, code, ret, handler, login_success, loginCalls, events, hist>>
    /\ UNCHANGED <<segVars, batchVars, predVars>>

\* main.py:125-130 without the `return` of line 128: a rejected login is
\* reported and main() goes on.
CheckLoginFallsThrough ==
    /\ pc = "check_login"
    /\ IF login_success
       THEN events' = events \cup {"msg_success"}
       ELSE events' = events \cup {"msg_failed"}
    /\ pc' = "save_q"
    /\ UNCHANGED <<inv, registered_users, current_user, save_credentials, status, exc,
                   ai_result, code, ret, handler, login_success, loginCalls, hist>>
    /\ UNCHANGED <<segVars, batchVars, predVars>>

\* main() with a retry: a rejected login starts another attempt.
CheckLoginRetry ==
    /\ pc = "check_login"
    /\ IF login_success
       THEN /\ events' = events \cup {"msg_success"}
            /\ pc' = "save_q"
       ELSE /\ events' = events \cup {"msg_failed"}
            /\ pc' = "with_enter"
    /\ UNCHANGED <<inv, registered_users, current_user, save_credentials, status, exc,
                   ai_result, code, ret, handler, login_success, loginCalls, hist>>
    /\ UNCHANGED <<segVars, batchVars, predVars>>

\* main.py:125-130: a rejected login is reported and main() returns; an accepted
\* one is announced.
CheckLogin ==
    /\ pc = "check_login"
    /\ IF login_success
       THEN /\ events' = events \cup {"msg_success"}
            /\ pc' = "save_q"
       ELSE /\ events' = events \cup {"msg_failed"}
            /\ pc' = "returned"
    /\ UNCHANGED <<inv, registered_users, current_user, save_credentials, status, exc,
                   ai_result, code, ret, handler, login_success, loginCalls, hist>>
    /\ UNCHANGED <<segVars, batchVars, predVars>>

\* main.py:133-136: offer to store typed credentials.
SaveQuestion ==
    /\ pc = "save_q"
    /\ IF save_credentials
       THEN \E answer \in {"Evet", "Hayir"} :
               IF answer = "Evet"
               THEN /\ registered_users' = registered_users \cup {current_user}
                    /\ events' = events \cup {"answer_evet", "save_user"}
               ELSE /\ events' = events \cup {"answer_hayir"}
                    /\ UNCHANGED registered_users
       ELSE UNCHANGED <<registered_users, events>>
    /\ pc' = "fetch"
    /\ UNCHANGED <<inv, current_user, save_credentials, status, exc,
                   ai_result, code, ret, handler, login_success, loginCalls, hist>>
    /\ UNCHANGED <<segVars, batchVars, predVars>>

\* main.py:139-162: client.fetch_grades() and the table; an Exception is reported
\* and swallowed.
FetchGrades ==
    /\ pc = "fetch"
    /\ \/ events' = events \cup {"fetch_grades", "render_grades"}
       \/ events' = events \cup {"fetch_grades", "msg_fetch_error"}
    /\ pc' = "final_q"
    /\ UNCHANGED <<inv, registered_users, current_user, save_credentials, status, exc,
                   ai_result, code, ret, handler, login_success, loginCalls, hist>>
    /\ UNCHANGED <<segVars, batchVars, predVars>>

\* main.py:166-167: "Kullanici Degistir": main() again.
SwitchUser ==
    /\ pc = "final_q" /\ inv < MaxInvocations
    /\ pc' = "start"
    /\ inv' = inv + 1
    /\ UNCHANGED registered_users
    /\ FreshLocals
    /\ UNCHANGED <<segVars, batchVars, predVars>>

\* main.py:168-169: "Cikis".
Quit ==
    /\ pc = "final_q"
    /\ events' = events \cup {"msg_goodbye"}
    /\ pc' = "returned"
    /\ UNCHANGED <<inv, registered_users, current_user, save_credentials, status, exc,
                   ai_result, code, ret, handler, login_success, loginCalls, hist>>
    /\ UNCHANGED <<segVars, batchVars, predVars>>

\* A KeyboardInterrupt (Ctrl-C) at any statement of main(). Inside the try it
\* reaches the except clause of main.py:118 (which does not match it), inside the
\* rest of the with block it leaves through Status.__exit__, elsewhere it
\* leaves main() at once.
Interrupt ==
    /\ pc \in PrePcs \cup LoginPcs \cup PostPcs
    /\ exc' = "interrupt"
    /\ hist' = [hist EXCEPT !.intPhase = Phase(pc), !.intInPrompt = (pc = "h_prompt")]
    /\ handler' = IF pc \in HandlerPcs THEN "raised" ELSE handler
    /\ pc' = IF pc \in TryPcs THEN "try_raised"
             ELSE IF pc \in LoginPcs THEN "with_raise" ELSE "main_raised"
    /\ UNCHANGED <<inv, registered_users, current_user, save_credentials, status,
                   ai_result, code, ret, login_success, loginCalls, events>>
    /\ UNCHANGED <<segVars, batchVars, predVars>>

MainNext ==
    \/ ChooseExit \/ ChooseNew \/ ChooseDelete \/ ChooseUser \/ AskCredentials
    \/ EnterStatus \/ CallLogin \/ LoginFetch
    \/ HandlerSolve \/ HandlerCheck \/ HandlerViewer \/ HandlerStop
    \/ HandlerPrompt \/ HandlerRestart
    \/ LoginSubmit \/ ExceptStop \/ ExceptMessage \/ Uncaught \/ WithExitRaise
    \/ MainGuard \/ WithExit \/ CheckLogin
    \/ SaveQuestion \/ FetchGrades \/ SwitchUser \/ Quit \/ Interrupt

----------------------------------------------------------------------------
(* SmartCaptchaSolver.find_character_regions, auto_collect_digits.py:30-84 *)

MinHeight == 18
PlusMaxHeight == 22
CenterRadius == 25
SplitWidth == 28
TripleWidth == 45
MaxRegions == 3

Abs(n) == IF n < 0 THEN -n ELSE n
Min(a, b) == IF a < b THEN a ELSE b
Max(a, b) == IF a > b THEN a ELSE b

\* auto_collect_digits.py:47.
center_x(img_w) == img_w \div 2

\* auto_collect_digits.py:60.
is_center(c, img_w) == Abs(c.x + (c.w \div 2) - center_x(img_w)) < CenterRadius

\* auto_collect_digits.py:59, 61 with the ratio cut to an integer (w // h).
NearSquareFloorDiv(c) == 7 < 10 * (c.w \div c.h) /\ 10 * (c.w \div c.h) < 14

\* auto_collect_digits.py:59, 61: 0.7 < w / float(h) < 1.4, in tenths.
NearSquare(c) == 7 * c.h < 10 * c.w /\ 10 * c.w < 14 * c.h

\* auto_collect_digits.py:61: the plus-sign filter.
IsPlusSign(c, img_w) == is_center(c, img_w) /\ c.h < PlusMaxHeight /\ NearSquare(c)

\* The filters without the height test of auto_collect_digits.py:55.
SurvivesAnyHeight(c, img_w) == ~IsPlusSign(c, img_w)

\* auto_collect_digits.py:55-62: the contour passes both filters.
Survives(c, img_w) == c.h >= MinHeight /\ ~IsPlusSign(c, img_w)

\* A region as find_character_regions appends it; `parts` is a ghost field, the
\* number of pieces its contour box was cut into (1: appended whole).
Region(x, y, w, h, parts) == [x |-> x, y |-> y, w |-> w, h |-> h, parts |-> parts]

\* The split with every wide box cut in two, however wide.
SplitBoxHalves(c) ==
    IF c.w > SplitWidth
    THEN <<Region(c.x, c.y, c.w \div 2, c.h, 2),
           Region(c.x + c.w \div 2, c.y, c.w \div 2, c.h, 2)>>
    ELSE <<Region(c.x, c.y, c.w, c.h, 1)>>

\* auto_collect_digits.py:65-76: what one surviving contour box appends.
SplitBox(c) ==
    IF c.w > SplitWidth
    THEN IF c.w > TripleWidth
         THEN LET div == c.w \div 3
              IN  <<Region(c.x, c.y, div, c.h, 3),
                    Region(c.x + div, c.y, div, c.h, 3),
                    Region(c.x + 2 * div, c.y, div, c.h, 3)>>
         ELSE <<Region(c.x, c.y, c.w \div 2, c.h, 2),
                Region(c.x + c.w \div 2, c.y, c.w \div 2, c.h, 2)>>
    ELSE <<Region(c.x, c.y, c.w, c.h, 1)>>

\* auto_collect_digits.py:50-76: the body of the loop for one contour.
ContourBoxes(c, img_w) == IF Survives(c, img_w) THEN SplitBox(c) ELSE <<>>

\* list.sort(key=lambda b: b[0]) is stable: b goes behind every box of the
\* sorted list t whose x is not larger.
InsertByX(t, b) ==
    LET k == Cardinality({j \in 1..Len(t) : t[j].x <= b.x})
    IN  SubSeq(t, 1, k) \o <<b>> \o SubSeq(t, k + 1, Len(t))

\* auto_collect_digits.py:79.
RECURSIVE SortByX(_)
SortByX(s) ==
    IF s = <<>> THEN <<>>
    ELSE InsertByX(SortByX(SubSeq(s, 1, Len(s) - 1)), s[Len(s)])

\* The list cut one box late (boxes[:4]).
TruncateLate(s) == SubSeq(s, 1, Min(MaxRegions + 1, Len(s)))

\* auto_collect_digits.py:82: boxes[:3].
Truncate(s) == SubSeq(s, 1, Min(MaxRegions, Len(s)))

\* auto_collect_digits.py:45-84 as a function of the contour boxes, in the order
\* cv2.findContours lists them.
RECURSIVE AllBoxes(_, _)
AllBoxes(cs, img_w) ==
    IF cs = <<>> THEN <<>>
    ELSE AllBoxes(SubSeq(cs, 1, Len(cs) - 1), img_w) \o ContourBoxes(cs[Len(cs)], img_w)

find_character_regions(cs, img_w) == Truncate(SortByX(AllBoxes(cs, img_w)))

SegInit ==
    /\ segpc = "loop" /\ boxes = <<>> /\ regions = <<>> /\ lastCnt = <<>>
    /\ nAdded = 0 /\ nCnt = 0

\* auto_collect_digits.py:49-76: one pass of `for cnt in contours`.
ProcessContour ==
    /\ segpc = "loop" /\ nCnt < MaxContours
    /\ \E c \in Contours :
          /\ boxes' = boxes \o ContourBoxes(c, ImgW)
          /\ lastCnt' = <<c>>
          /\ nAdded' = Len(ContourBoxes(c, ImgW))
    /\ nCnt' = nCnt + 1
    /\ UNCHANGED <<segpc, regions>>
    /\ UNCHANGED <<mainVars, batchVars, predVars>>

\* auto_collect_digits.py:78-84: sort, cut to three, return.
SortAndReturn ==
    /\ segpc = "loop"
    /\ regions' = Truncate(SortByX(boxes))
    /\ segpc' = "done"
    /\ UNCHANGED <<boxes, lastCnt, nAdded, nCnt>>
    /\ UNCHANGED <<mainVars, batchVars, predVars>>

SegNext == ProcessContour \/ SortAndReturn

----------------------------------------------------------------------------
(* auto_collect_digits.py: SmartCaptchaSolver and main(), the collection loop *)

total_samples == 50
pad == 3

\* auto_collect_digits.py:22-28: the weights file may be missing, and loading it
\* may raise.
LoadModel(exists, loads) == IF exists /\ loads THEN "model" ELSE None

\* predict_digit without the test of :87: self.model.predict on None raises.
predict_digit_unguarded(m, h, w) ==
    IF h = 0 \/ w = 0 THEN {"?"}
    ELSE IF m = None THEN {"raise"}
    ELSE Labels \cup {"raise"}

\* auto_collect_digits.py:86-104: what predict_digit can give for a region image
\* of h rows and w columns: "?", the argmax as a string, or an Exception of the
\* inference ("raise").
predict_digit(m, h, w) ==
    IF m = None THEN {"?"}
    ELSE IF h = 0 \/ w = 0 THEN {"?"}
    ELSE Labels \cup {"raise"}

\* auto_collect_digits.py:155-159: the columns of the slice taken for region b.
RoiWidth(b, img_w) == Min(img_w, b.x + b.w + pad) - Max(0, b.x - pad)

BatchInit ==
    /\ bpc = "download" /\ i = 0 /\ success_count = 0
    /\ \E exists \in BOOLEAN, loads \in BOOLEAN : model = LoadModel(exists, loads)
    /\ fileExists = FALSE /\ bboxes = <<>> /\ parsed_digits = <<>>
    /\ dataset = {} /\ saved = 0 /\ iterExit = "none" /\ labels = <<>>
    /\ counted = FALSE

\* The download with its Exception ending the whole loop instead of the pass.
BDownloadAborts ==
    /\ bpc = "download"
    /\ \/ /\ fileExists' = TRUE
          /\ bpc' = "decode"
          /\ iterExit' = iterExit
       \/ /\ fileExists' = fileExists
          /\ bpc' = "iter_end"
          /\ iterExit' = "download_failed"
       \/ /\ fileExists' = fileExists
          /\ bpc' = "completed"
          /\ iterExit' = "exception"
    /\ UNCHANGED <<i, success_count, counted, model, bboxes, parsed_digits, dataset, saved,
                   labels>>
    /\ UNCHANGED <<mainVars, segVars, predVars>>

\* auto_collect_digits.py:125-135: the page and the image are fetched; the
\* request may raise (caught at :195), the download may give no path.
BDownload ==
    /\ bpc = "download"
    /\ \/ /\ fileExists' = TRUE
          /\ bpc' = "decode"
          /\ iterExit' = iterExit
       \/ /\ fileExists' = fileExists
          /\ bpc' = "iter_end"
          /\ iterExit' = "download_failed"
       \/ /\ fileExists' = fileExists
          /\ bpc' = "iter_end"
          /\ iterExit' = "exception"
    /\ UNCHANGED <<i, success_count, counted, model, bboxes, parsed_digits, dataset, saved,
                   labels>>
    /\ UNCHANGED <<mainVars, segVars, predVars>>

\* auto_collect_digits.py:138-141: cv2.imread; an undecodable file is removed.
BDecode ==
    /\ bpc = "decode"
    /\ \/ /\ bpc' = "segment"
          /\ UNCHANGED <<fileExists, iterExit>>
       \/ /\ fileExists' = FALSE
          /\ bpc' = "iter_end"
          /\ iterExit' = "decode_failed"
    /\ UNCHANGED <<i, success_count, counted, model, bboxes, parsed_digits, dataset, saved,
                   labels>>
    /\ UNCHANGED <<mainVars, segVars, predVars>>

\* auto_collect_digits.py:143-151: segmentation; with no region the file is
\* removed and the iteration skipped.
BSegment ==
    /\ bpc = "segment"
    /\ \E cs \in BatchImages :
          LET found == find_character_regions(cs, ImgW)
          IN  IF found = <<>>
              THEN /\ fileExists' = FALSE
                   /\ bpc' = "iter_end"
                   /\ iterExit' = "empty"
                   /\ UNCHANGED <<bboxes, parsed_digits>>
              ELSE /\ bboxes' = found
                   /\ parsed_digits' = <<>>
                   /\ bpc' = "regions"
                   /\ UNCHANGED <<fileExists, iterExit>>
    /\ UNCHANGED <<i, success_count, counted, model, dataset, saved, labels>>
    /\ UNCHANGED <<mainVars, segVars, predVars>>

\* The pass without the `continue` of :163: a "?" is treated like a label.
BRegionKeepsUnknown ==
    /\ bpc = "regions" /\ bboxes # <<>>
    /\ \E o \in predict_digit(model, ImgH, RoiWidth(Head(bboxes), ImgW)) :
          /\ labels' = Append(labels, o)
          /\ \/ /\ o \in Labels \cup {"?"}
                /\ parsed_digits' = Append(parsed_digits, o)
                /\ \/ /\ dataset' = dataset \cup {[dir |-> o, label |-> o]}
                      /\ saved' = saved + 1
                      /\ bboxes' = Tail(bboxes)
                      /\ UNCHANGED <<bpc, iterExit>>
                   \/ /\ bpc' = "iter_end"
                      /\ iterExit' = "exception"
                      /\ UNCHANGED <<bboxes, dataset, saved>>
             \/ /\ o = "raise"
                /\ bpc' = "iter_end"
                /\ iterExit' = "exception"
                /\ UNCHANGED <<bboxes, parsed_digits, dataset, saved>>
    /\ UNCHANGED <<i, success_count, counted, model, fileExists>>
    /\ UNCHANGED <<mainVars, segVars, predVars>>

\* auto_collect_digits.py:152-180: one pass of `for x, y, w, h in boxes`: the
\* region is classified; "?" is skipped; a label is added to parsed_digits and
\* the crop written under dataset_digits/<label>/. The inference and the write
\* (os.makedirs, cv2.imwrite) may raise, which ends the iteration at :195.
BRegion ==
    /\ bpc = "regions" /\ bboxes # <<>>
    /\ \E o \in predict_digit(model, ImgH, RoiWidth(Head(bboxes), ImgW)) :
          /\ labels' = Append(labels, o)
          /\ \/ /\ o = "?"
                /\ bboxes' = Tail(bboxes)
                /\ UNCHANGED <<bpc, parsed_digits, dataset, saved, iterExit>>
             \/ /\ o \in Labels
                /\ parsed_digits' = Append(parsed_digits, o)
                /\ \/ /\ dataset' = dataset \cup {[dir |-> o, label |-> o]}
                      /\ saved' = saved + 1
                      /\ bboxes' = Tail(bboxes)
                      /\ UNCHANGED <<bpc, iterExit>>
                   \/ /\ bpc' = "iter_end"
                      /\ iterExit' = "exception"
                      /\ UNCHANGED <<bboxes, dataset, saved>>
             \/ /\ o = "raise"
                /\ bpc' = "iter_end"
                /\ iterExit' = "exception"
                /\ UNCHANGED <<bboxes, parsed_digits, dataset, saved>>
    /\ UNCHANGED <<i, success_count, counted, model, fileExists>>
    /\ UNCHANGED <<mainVars, segVars, predVars>>

\* The count taken only for a pass that wrote a crop.
BCountNeedsCrop ==
    /\ bpc = "regions" /\ bboxes = <<>>
    /\ success_count' = IF saved > 0 THEN success_count + 1 ELSE success_count
    /\ counted' = (saved > 0)
    /\ bpc' = "cleanup"
    /\ UNCHANGED <<i, model, fileExists, bboxes, parsed_digits, dataset, saved,
                   iterExit, labels>>
    /\ UNCHANGED <<mainVars, segVars, predVars>>

\* auto_collect_digits.py:182-183: the region loop is over: the summary line
\* and success_count += 1. `counted` is a ghost: this pass has been counted.
BCount ==
    /\ bpc = "regions" /\ bboxes = <<>>
    /\ success_count' = success_count + 1
    /\ counted' = TRUE
    /\ bpc' = "cleanup"
    /\ UNCHANGED <<i, model, fileExists, bboxes, parsed_digits, dataset, saved,
                   iterExit, labels>>
    /\ UNCHANGED <<mainVars, segVars, predVars>>

\* auto_collect_digits.py:185-190: the image is removed and the loop sleeps;
\* os.remove may raise, which ends the pass at :195 with the count taken.
BCleanup ==
    /\ bpc = "cleanup"
    /\ \/ /\ fileExists' = FALSE
          /\ iterExit' = "done"
       \/ /\ fileExists' = fileExists
          /\ iterExit' = "exception"
    /\ bpc' = "iter_end"
    /\ UNCHANGED <<i, success_count, counted, model, bboxes, parsed_digits, dataset,
                   saved, labels>>
    /\ UNCHANGED <<mainVars, segVars, predVars>>

\* auto_collect_digits.py:192-194: a KeyboardInterrupt inside the try: "Stopped
\* by user", break, then the completion message of :199.
BInterrupt ==
    /\ bpc \in {"download", "decode", "segment", "regions", "cleanup"}
    /\ iterExit' = "interrupt"
    /\ bpc' = "completed"
    /\ UNCHANGED <<i, success_count, counted, model, fileExists, bboxes, parsed_digits,
                   dataset, saved, labels>>
    /\ UNCHANGED <<mainVars, segVars, predVars>>

\* auto_collect_digits.py:123, 199: the next pass of `for i in range(total_samples)`,
\* or the completion message after the last. fileExists follows the image of the
\* running pass.
BNextIteration ==
    /\ bpc = "iter_end"
    /\ i' = i + 1
    /\ IF i + 1 < total_samples
       THEN /\ bpc' = "download"
            /\ iterExit' = "none"
            /\ fileExists' = FALSE
            /\ bboxes' = <<>>
            /\ parsed_digits' = <<>>
            /\ saved' = 0
            /\ labels' = <<>>
            /\ counted' = FALSE
       ELSE /\ bpc' = "completed"
            /\ UNCHANGED <<iterExit, fileExists, bboxes, parsed_digits, saved, labels,
                           counted>>
    /\ UNCHANGED <<success_count, model, dataset>>
    /\ UNCHANGED <<mainVars, segVars, predVars>>

BatchNext ==
    \/ BDownload \/ BDecode \/ BSegment \/ BRegion \/ BCount \/ BCleanup \/ BInterrupt
    \/ BNextIteration

----------------------------------------------------------------------------
(* SmartCaptchaSolver.predict_digit step by step, auto_collect_digits.py:86-104 *)

CanvasSize == 32

\* auto_collect_digits.py:93.
top_bottom_pad == 0

\* The padding without the max(0, ...) of :94.
left_right_pad_signed(h, w) == (h - w) \div 2

\* auto_collect_digits.py:94.
left_right_pad(h, w) == Max(0, (h - w) \div 2)

PredInit ==
    /\ ppc = "check_model"
    /\ self_model \in {None, "model"}
    /\ roi \in [h : 0..MaxRoi, w : 0..MaxRoi]
    /\ padded = <<>> /\ resized = <<>> /\ digit = None

\* auto_collect_digits.py:87.
PCheckModel ==
    /\ ppc = "check_model"
    /\ IF self_model = None
       THEN digit' = "?" /\ ppc' = "returned"
       ELSE digit' = digit /\ ppc' = "check_shape"
    /\ UNCHANGED <<self_model, roi, padded, resized>>
    /\ UNCHANGED <<mainVars, segVars, batchVars>>

\* auto_collect_digits.py:90-91.
PCheckShape ==
    /\ ppc = "check_shape"
    /\ IF roi.h = 0 \/ roi.w = 0
       THEN digit' = "?" /\ ppc' = "returned"
       ELSE digit' = digit /\ ppc' = "pad"
    /\ UNCHANGED <<self_model, roi, padded, resized>>
    /\ UNCHANGED <<mainVars, segVars, batchVars>>

\* auto_collect_digits.py:93-95: cv2.copyMakeBorder(roi, top, bottom, left, right).
PPad ==
    /\ ppc = "pad"
    /\ padded' = [top |-> top_bottom_pad, bottom |-> top_bottom_pad,
                  left |-> left_right_pad(roi.h, roi.w),
                  right |-> left_right_pad(roi.h, roi.w),
                  h |-> roi.h + top_bottom_pad + top_bottom_pad,
                  w |-> roi.w + left_right_pad(roi.h, roi.w)
                             + left_right_pad(roi.h, roi.w)]
    /\ ppc' = "resize"
    /\ UNCHANGED <<self_model, roi, resized, digit>>
    /\ UNCHANGED <<mainVars, segVars, batchVars>>

\* auto_collect_digits.py:97-101: cv2.resize(padded, (32, 32)), scaled and wrapped
\* into a batch of one single-channel image.
PResize ==
    /\ ppc = "resize"
    /\ resized' = [h |-> CanvasSize, w |-> CanvasSize]
    /\ ppc' = "predict"
    /\ UNCHANGED <<self_model, roi, padded, digit>>
    /\ UNCHANGED <<mainVars, segVars, batchVars>>

\* auto_collect_digits.py:103-104: the inference gives the argmax or raises.
PPredict ==
    /\ ppc = "predict"
    /\ \/ /\ \E l \in Labels : digit' = l
          /\ ppc' = "returned"
       \/ /\ digit' = digit
          /\ ppc' = "raised"
    /\ UNCHANGED <<self_model, roi, padded, resized>>
    /\ UNCHANGED <<mainVars, segVars, batchVars>>

PredNext == PCheckModel \/ PCheckShape \/ PPad \/ PResize \/ PPredict

----------------------------------------------------------------------------
(* The specifications; each leaves the variables of the others idle *)

MainIdle ==
    /\ pc = "idle" /\ inv = 0 /\ registered_users = {} /\ current_user = None
    /\ save_credentials = FALSE /\ status = "idle" /\ exc = "none"
    /\ ai_result = None /\ code = None /\ ret = None /\ handler = "none"
    /\ login_success = FALSE /\ loginCalls = 0 /\ events = {} /\ hist = NoHist

SegIdle ==
    /\ segpc = "idle" /\ boxes = <<>> /\ regions = <<>> /\ lastCnt = <<>>
    /\ nAdded = 0 /\ nCnt = 0

BatchIdle ==
    /\ bpc = "idle" /\ i = 0 /\ success_count = 0 /\ model = None /\ fileExists = FALSE
    /\ bboxes = <<>> /\ parsed_digits = <<>> /\ dataset = {} /\ saved = 0
    /\ iterExit = "none" /\ labels = <<>> /\ counted = FALSE

PredIdle ==
    /\ ppc = "idle" /\ self_model = None /\ roi = <<>> /\ padded = <<>>
    /\ resized = <<>> /\ digit = None

Init == MainInit /\ SegIdle /\ BatchIdle /\ PredIdle
Next == MainNext
Spec == Init /\ [][Next]_vars

InitSeg == MainIdle /\ SegInit /\ BatchIdle /\ PredIdle
NextSeg == SegNext
SpecSeg == InitSeg /\ [][NextSeg]_vars

InitBatch == MainIdle /\ SegIdle /\ BatchInit /\ PredIdle
NextBatch == BatchNext
SpecBatch == InitBatch /\ [][NextBatch]_vars
\* The loop is sequential code: while a statement is left to run, one runs.
SpecBatchFair == SpecBatch /\ WF_vars(NextBatch)

InitPredict == MainIdle /\ SegIdle /\ BatchIdle /\ PredInit
NextPredict == PredNext
SpecPredict == InitPredict /\ [][NextPredict]_vars

----------------------------------------------------------------------------
(* Claims about src/main.py, checked under Spec *)

\* What reports the result of a login attempt or acts on it.
ResultEvents == {"msg_success", "msg_failed", "msg_conn_error", "save_user",
                 "fetch_grades"}

\* C1: once captcha_handler has stopped the indicator for the prompt, it has
\* restarted it by the time control leaves the handler, whether ui.ask_input
\* returned or raised.
C1_RestartOnEveryExit ==
    (handler \in {"returned", "raised"} /\ hist.stopped) => hist.restarted

\* C2: captcha_handler returns the operator's code when the solver gave no code
\* (None or ""), and the solver's code only when that is non-empty; with a
\* non-empty solver code the viewer and the prompt are never used and the handler
\* never stops the indicator.
C2_SourceFollowsSolver ==
    /\ (handler = "returned" /\ ai_result \in {None, ""}) =>
          (hist.source = "human" /\ ret = code /\ "prompt" \in events)
    /\ (handler = "returned" /\ ai_result \notin {None, ""}) =>
          (hist.source = "automatic" /\ ret = ai_result)
    /\ (handler # "none" /\ ai_result \notin {None, ""}) =>
          ("viewer" \notin events /\ "prompt" \notin events /\ ~hist.stopped)

\* C2 witness: the solver returned the empty string and the handler returned
\* what the operator typed.
C2_Witness ==
    /\ handler = "returned" /\ ai_result = "" /\ ~hist.solverRaised
    /\ hist.source = "human" /\ ret = "739"

\* C3: an Exception of the solver never leaves captcha_handler: the handler goes
\* on to the manual entry and, when it returns, returns the typed code.
C3_SolverFaultAbsorbed ==
    /\ exc # "solver"
    /\ hist.caught # "solver"
    /\ (hist.solverRaised /\ handler = "returned") =>
          (hist.source = "human" /\ ret = code /\ "prompt" \in events)

\* C3 witness: the solver raised and the handler returned the typed code to login.
C3_Witness ==
    /\ hist.solverRaised /\ handler = "returned" /\ pc = "login_submit"
    /\ ret = "12" /\ code = "12"

\* C7: after a KeyboardInterrupt during the login attempt nothing but the
\* unwinding runs, no login result is reported or acted on, and the indicator
\* is stopped once the interrupt has left main().
C7_InterruptEndsAttempt ==
    hist.intPhase = "login" =>
        /\ pc \in {"try_raised", "with_raise", "main_raised", "terminated"}
        /\ events \cap ResultEvents = {}
        /\ (pc \in {"main_raised", "terminated"} => status = "stopped")
        /\ pc = "terminated" => "cancelled" \in events

\* C7 witness: the interrupt came while the prompt was pending and the program
\* has terminated.
C7_Witness ==
    /\ hist.intInPrompt /\ pc = "terminated" /\ status = "stopped"
    /\ "prompt" \notin events

\* C8: one invocation of main() calls client.login at most once; after a
\* rejected login or a transport error main() has returned.
C8_NoRetry ==
    /\ loginCalls <= 1
    /\ ("msg_failed" \in events \/ "msg_conn_error" \in events) =>
          (pc = "returned" /\ loginCalls = 1)

\* C8 witness: the portal rejected the login and main() has returned.
C8_Witness ==
    /\ "msg_failed" \in events /\ pc = "returned" /\ loginCalls = 1
    /\ ~login_success /\ handler = "returned"

\* C9: a rejected login and an Exception of the login phase end in an error
\* message and a normal return of main(): only a KeyboardInterrupt ever leaves
\* main(), and the indicator is stopped when the message is shown.
C9_FailuresAreOutcomes ==
    /\ pc \in {"with_raise", "main_raised", "crashed"} => exc = "interrupt"
    /\ pc # "crashed"
    /\ pc \in {"except_msg", "check_login"} => status = "stopped"
    /\ ("msg_failed" \in events \/ "msg_conn_error" \in events) =>
          (pc = "returned" /\ status = "stopped" /\ exc = "none")
    /\ (pc = "returned" /\ ~login_success) =>
          ("msg_failed" \in events \/ "msg_conn_error" \in events)

\* C9 witness: a transport error of client.login was reported and main() returned.
C9_Witness ==
    /\ pc = "returned" /\ hist.caught = "transport" /\ "msg_conn_error" \in events
    /\ status = "stopped"

----------------------------------------------------------------------------
(* Claims about find_character_regions, checked under SpecSeg *)

\* The shape the plus-sign filter looks for: close to the horizontal centre of
\* the image, near-square, lower than the separator height.
SeparatorShaped(r) ==
    /\ Abs(r.x + (r.w \div 2) - (ImgW \div 2)) < 25
    /\ 7 * r.h < 10 * r.w /\ 10 * r.w < 14 * r.h
    /\ r.h < 22

\* The regions the last contour of the loop appended to boxes.
LastAdded == SubSeq(boxes, Len(boxes) - nAdded + 1, Len(boxes))

SumW(s) == IF Len(s) = 3 THEN s[1].w + s[2].w + s[3].w
           ELSE IF Len(s) = 2 THEN s[1].w + s[2].w
           ELSE IF Len(s) = 1 THEN s[1].w ELSE 0

\* A surviving wide box c was replaced by 2 (28 < w <= 45) or 3 (w > 45)
\* sub-regions of one width, of c's y and height, whose widths sum to c.w with an
\* error of at most err(number of sub-regions).
SplitWithin(c, sub, err(_)) ==
    /\ Len(sub) = IF c.w > 45 THEN 3 ELSE 2
    /\ \A j \in 1..Len(sub) :
          sub[j].w = sub[1].w /\ sub[j].y = c.y /\ sub[j].h = c.h
    /\ Abs(c.w - SumW(sub)) <= err(Len(sub))

OnePixel(n) == 1
OnePixelPerCut(n) == n - 1

WideSurvivor ==
    /\ segpc = "loop" /\ lastCnt # <<>>
    /\ lastCnt[1].w > 28 /\ lastCnt[1].h >= 18 /\ ~SeparatorShaped(lastCnt[1])

\* C4: find_character_regions returns at most 3 regions, in non-decreasing x.
C4_AtMostThreeSorted ==
    segpc = "done" =>
        /\ Len(regions) <= 3
        /\ \A j \in 1..(Len(regions) - 1) : regions[j].x <= regions[j + 1].x

\* C4 witness: five boxes were collected out of x order (a box at x = 10 behind
\* boxes at x >= 50) and three came back, the box at x = 10 first.
C4_Witness ==
    /\ segpc = "done" /\ Len(boxes) = 5 /\ Len(regions) = 3
    /\ boxes[1].x = 50 /\ boxes[5].x = 10 /\ regions[1].x = 10

\* C5 as stated: the sub-regions of a wide box sum to its width with an error of
\* at most 1 pixel.
C5_SplitWithinOnePixel ==
    WideSurvivor => SplitWithin(lastCnt[1], LastAdded, OnePixel)

\* C5 as amended: the error is at most 1 pixel for the split in two and at most
\* 2 pixels for the split in three (three times w // 3).
C5_SplitWithinRounding ==
    WideSurvivor => SplitWithin(lastCnt[1], LastAdded, OnePixelPerCut)

\* C5 witness: a box of width 47 was cut into three sub-regions of width 15.
C5_Witness ==
    /\ WideSurvivor /\ lastCnt[1].w = 47 /\ nAdded = 3
    /\ LastAdded[1].w = 15 /\ LastAdded[3].x = lastCnt[1].x + 30

\* C6 as stated: no region of the output, sub-regions included, has the shape
\* the plus-sign filter looks for.
C6_NoSeparatorShapedRegion ==
    segpc = "done" => \A j \in 1..Len(regions) : ~SeparatorShaped(regions[j])

\* C6 as amended: a region of the output that has that shape is a sub-region
\* of a split box; no contour box of that shape is returned.
C6_OnlySplitsSeparatorShaped ==
    segpc = "done" =>
        \A j \in 1..Len(regions) :
            SeparatorShaped(regions[j]) => regions[j].parts > 1

\* C6 witness: the last contour had the separator's shape and added nothing,
\* and the output holds a whole box and a sub-region of that shape.
C6_Witness ==
    /\ segpc = "done" /\ lastCnt # <<>> /\ SeparatorShaped(lastCnt[1])
    /\ lastCnt[1].h >= 18 /\ nAdded = 0 /\ Len(regions) = 3
    /\ \E j \in 1..3 : regions[j].parts = 1
    /\ \E j \in 1..3 : regions[j].parts = 2 /\ SeparatorShaped(regions[j])

----------------------------------------------------------------------------
(* Claims about the batch collector, checked under SpecBatch *)

\* C10: when a pass of the loop ends, however it ends (completion, a skipped
\* pass, an Exception, the user's interrupt), the image it downloaded is gone.
C10_TempFileGone ==
    (bpc = "iter_end" \/ (bpc = "completed" /\ iterExit = "interrupt")) => ~fileExists

\* The labels of a list of classifications: what is left without "?" and "raise".
RECURSIVE Concrete(_)
Concrete(ls) ==
    IF ls = <<>> THEN <<>>
    ELSE IF ls[Len(ls)] \in {"?", "raise"}
         THEN Concrete(SubSeq(ls, 1, Len(ls) - 1))
         ELSE Append(Concrete(SubSeq(ls, 1, Len(ls) - 1)), ls[Len(ls)])

\* C11: a region classified "?" is never written: every crop of the dataset
\* lies in the directory of the concrete label it was classified as, and
\* parsed_digits holds exactly the concrete labels of the pass, in order; no
\* more crops are written in a pass than it has concrete labels.
C11_UnknownNeverPersisted ==
    /\ \A e \in dataset : e.label # "?" /\ e.label \in Labels /\ e.dir = e.label
    /\ parsed_digits = Concrete(labels)
    /\ \A j \in 1..Len(parsed_digits) : parsed_digits[j] # "?"
    /\ saved <= Len(parsed_digits)

\* C11 witness: a pass whose three regions were all classified "?" has ended
\* with nothing parsed and nothing written.
C11_Witness ==
    /\ bpc = "iter_end" /\ iterExit = "done" /\ labels = <<"?", "?", "?">>
    /\ parsed_digits = <<>> /\ saved = 0 /\ dataset = {}

\* The ways a pass can fail without the user's interrupt.
FailedExits == {"download_failed", "decode_failed", "empty", "exception"}

\* C12: a failed pass ends only itself: after it the loop goes on with the next
\* pass, the completion message is reached, and without an interrupt it is
\* reached after exactly total_samples passes.
C12_FailureSkipsOnePass ==
    /\ [](iterExit \in FailedExits =>
            (bpc = "iter_end" \/ (bpc = "completed" /\ i = total_samples)))
    /\ []((bpc = "completed" /\ iterExit # "interrupt") => i = total_samples)
    /\ [][(bpc = "iter_end" /\ i + 1 < total_samples) =>
            (bpc' = "download" /\ i' = i + 1)]_vars
    /\ <>(bpc = "completed")

\* C12 witness: all 50 passes ran, exactly one of the first 49 failed, and the
\* passes after it, the last one included, were counted.
C12_Witness ==
    /\ bpc = "completed" /\ i = total_samples /\ iterExit = "done"
    /\ success_count = total_samples - 1

\* C13: without a model (the weights file missing, or its loading raised)
\* predict_digit gives "?" for every region image and never raises, and a pass
\* of the batch writes no crop.
C13_NoModelNoCrop ==
    /\ \A exists \in BOOLEAN, loads \in BOOLEAN :
          ~(exists /\ loads) => LoadModel(exists, loads) = None
    /\ \A h \in 0..MaxRoi, w \in 0..MaxRoi : predict_digit(None, h, w) = {"?"}
    /\ model = None =>
          /\ \A j \in 1..Len(labels) : labels[j] = "?"
          /\ parsed_digits = <<>> /\ saved = 0 /\ dataset = {}

\* C13 witness: a whole batch without a model: every pass ran and was counted,
\* and the dataset is empty.
C13_Witness ==
    /\ model = None /\ bpc = "completed" /\ i = total_samples
    /\ success_count = total_samples /\ labels = <<"?">> /\ dataset = {}

----------------------------------------------------------------------------
(* Claims about predict_digit, checked under SpecPredict *)

\* C14: a region image of h > 0 rows and w > 0 columns that reaches the padding
\* is padded left and right by max(0, (h - w) // 2) and not at all above and
\* below, so it keeps its height and gains twice that in width; what reaches the
\* model is 32 x 32; an image with h = 0 or w = 0 gives "?" with no padding,
\* resize or inference.
C14_PadsSidewaysTo32 ==
    /\ padded # <<>> =>
          LET lr == IF roi.h > roi.w THEN (roi.h - roi.w) \div 2 ELSE 0
          IN  /\ roi.h > 0 /\ roi.w > 0
              /\ padded.top = 0 /\ padded.bottom = 0
              /\ padded.left = lr /\ padded.right = lr
              /\ padded.h = roi.h /\ padded.w = roi.w + 2 * lr
    /\ (ppc \in {"predict", "raised"} \/ digit \in Labels) =>
          (padded # <<>> /\ resized = [h |-> 32, w |-> 32])
    /\ (roi.h = 0 \/ roi.w = 0) =>
          /\ ppc \in {"check_model", "check_shape", "returned"}
          /\ padded = <<>> /\ resized = <<>>
          /\ ppc = "returned" => digit = "?"
    /\ ppc = "returned" => digit \in predict_digit(self_model, roi.h, roi.w)
    /\ ppc = "raised" => "raise" \in predict_digit(self_model, roi.h, roi.w)

\* C14 witness: an image of 5 rows and 2 columns got one column on each side
\* and was classified on a 32 x 32 canvas.
C14_Witness ==
    /\ ppc = "returned" /\ digit = "7" /\ roi = [h |-> 5, w |-> 2]
    /\ padded.left = 1 /\ padded.w = 4 /\ padded.h = 5
    /\ resized = [h |-> 32, w |-> 32]

----------------------------------------------------------------------------
(* Further claims about src/main.py, checked under Spec *)

\* C15: while the prompt is pending the indicator is stopped: status.stop()
\* has run before ui.ask_input is called, and status.start() runs only after
\* ui.ask_input has returned and before the code goes back to client.login.
C15_PromptOnlyWhileStopped ==
    /\ pc = "h_prompt" => (status = "stopped" /\ hist.stopped /\ ~hist.restarted)
    /\ pc = "h_start" => (status = "stopped" /\ "prompt" \in events)
    /\ hist.restarted => (hist.stopped /\ "prompt" \in events /\ code # None)
    /\ (handler = "returned" /\ hist.source = "human") => hist.restarted
    /\ (pc = "login_submit" /\ hist.source = "human") => status = "running"

\* C15 witness: the operator typed a code with the indicator stopped, and
\* client.login has the code back with the indicator running again.
C15_Witness ==
    /\ pc = "login_submit" /\ hist.source = "human" /\ hist.stopped
    /\ hist.restarted /\ status = "running" /\ ret = "739" /\ ai_result = None

----------------------------------------------------------------------------
(* Further claims about find_character_regions, checked under SpecSeg *)

\* C16: every region find_character_regions collects and returns, the
\* sub-regions of the splits in two and in three included, has a width above 0
\* and a height of at least 18 (so above 0), whatever the contour boxes are.
C16_RegionsNonEmpty ==
    /\ \A j \in 1..Len(boxes) : boxes[j].w > 0 /\ boxes[j].h > 0 /\ boxes[j].h >= 18
    /\ segpc = "done" =>
          \A j \in 1..Len(regions) :
              regions[j].w > 0 /\ regions[j].h > 0 /\ regions[j].h >= 18

\* C16 witness: a box one pixel wide, a box cut in two and a box cut in three
\* were collected, and the output holds the 1-pixel box, a half and a third.
C16_Witness ==
    /\ segpc = "done" /\ Len(regions) = 3
    /\ \E j \in 1..3 : regions[j].parts = 1 /\ regions[j].w = 1
    /\ \E j \in 1..3 : regions[j].parts = 2 /\ regions[j].w = 15
    /\ \E j \in 1..3 : regions[j].parts = 3 /\ regions[j].w = 15

\* The calls main() makes only after a login: auth.save_user, client.fetch_grades.
PostLoginEvents == {"save_user", "fetch_grades"}

\* C17: auth.save_user and client.fetch_grades are called only in an invocation
\* whose single client.login returned true, never after a rejected login, a
\* transport error or an interrupt; auth.save_user only when the credentials
\* were typed in this invocation (save_credentials) and the answer was "Evet".
C17_PostLoginNeedsSuccess ==
    /\ []((events \cap PostLoginEvents # {}) =>
            /\ login_success /\ loginCalls = 1 /\ "msg_success" \in events
            /\ "msg_failed" \notin events /\ "msg_conn_error" \notin events
            /\ hist.caught = "none" /\ hist.intPhase \in {"none", "post"})
    /\ [](("save_user" \in events) =>
            /\ save_credentials /\ "typed_credentials" \in events
            /\ "answer_evet" \in events /\ "answer_hayir" \notin events)
    /\ [][~(events' \cap PostLoginEvents \subseteq events) =>
            (login_success /\ exc = "none" /\ pc \in {"save_q", "fetch"})]_vars

\* C17 witness: typed credentials were accepted, stored on "Evet", and the
\* grades were fetched.
C17_Witness ==
    /\ pc = "final_q" /\ login_success /\ save_credentials
    /\ PostLoginEvents \subseteq events /\ "answer_evet" \in events
    /\ current_user \in registered_users

----------------------------------------------------------------------------
(* Further claims about the batch collector, checked under SpecBatch *)

\* The running pass got through the download, the decoding, a segmentation
\* with at least one region and the whole region loop without an exception
\* (labels holds one classification per region handled, bboxes what is left).
PassRanThrough ==
    /\ bpc \in {"cleanup", "iter_end", "completed"}
    /\ Len(labels) >= 1 /\ bboxes = <<>>
    /\ \A j \in 1..Len(labels) : labels[j] # "raise"

\* One step of the loop: success_count stays or grows by one; it grows only
\* at the end of the region loop of a pass not yet counted; a counted pass is
\* not counted again and does not go back into the region loop.
CountedOncePerPass ==
    /\ success_count' \in {success_count, success_count + 1}
    /\ (success_count' = success_count + 1) =>
          (~counted /\ counted' /\ i' = i /\ bpc = "regions" /\ bpc' = "cleanup")
    /\ (counted /\ i' = i) => (counted' /\ bpc' # "regions")

\* C18: success_count grows by one at a time and at most once in a pass, at
\* the end of the region loop; a pass is counted exactly if it downloaded and
\* decoded its image, found at least one region and raised nothing before the
\* count, whether or not a crop was written; 0 <= success_count <=
\* total_samples throughout.
C18_CountsCompletedPasses ==
    /\ [](0 <= success_count /\ success_count <= total_samples)
    /\ [](success_count <= i + (IF counted /\ i < total_samples THEN 1 ELSE 0))
    /\ [](counted => PassRanThrough)
    /\ [](bpc \in {"cleanup", "iter_end"} => (counted <=> PassRanThrough))
    /\ [][CountedOncePerPass]_vars

\* C18 witness: the first pass found one region, which was classified "?"
\* (no model), nothing was written, and the pass was counted, its image still
\* on disk.
C18_Witness ==
    /\ model = None /\ i = 0 /\ bpc = "cleanup" /\ counted /\ success_count = 1
    /\ labels = <<"?">> /\ saved = 0 /\ fileExists

====
